---- MODULE Spec2Model ----
(***************************************************************************)
(* Model of the Brainfuck interpreter of src/src/brainfuck.rs:             *)
(* Interpreter::new (lexer and jump resolver) and Interpreter::run (the    *)
(* execution loop).  Positions (ip, dp, keys of jumps) are 0-indexed as in *)
(* the source; TLA+ sequences are 1-indexed, so insns[ip] of the source is *)
(* insns[ip + 1] here (operator Insn).                                     *)
(***************************************************************************)
EXTENDS Integers, Sequences, FiniteSets, TLC

VARIABLES
    src,         \* the source text handed to Interpreter::new
    new_result,  \* outcome of Interpreter::new: "none" while it runs, then "Ok"
                 \* or the message of the Err
    insns,       \* the local insns of new, then Interpreter.insns
    i,           \* position of the second pass of new
    jumps_loc,   \* the local jumps_loc of new: positions of the open brackets
    jumps,       \* Interpreter.jumps (HashMap as a function on its key set)
    ip,          \* Interpreter.ip
    dp,          \* Interpreter.dp
    cells,       \* Interpreter.cells (function on 0 .. TapeLen - 1)
    output,      \* the local `output` of run, the value of Ok(output)
    debug,       \* the argument of the current / last call of run
    pc,          \* "new": inside new; "idle": no call in progress; "loop": inside
                 \* run's loop
    result,      \* outcome of the last call of run ("none" before / during a call)
    runs,        \* number of calls of run made on this interpreter
    rd           \* the last `stdin().read(&mut buf)`: res is "none" before any
                 \* read, else "Err" or "Ok"; n is the count of Ok(n); buf is buf[0]

vars == <<src, new_result, insns, i, jumps_loc, jumps, ip, dp, cells, output, debug,
          pc, result, runs, rd>>

----------------------------------------------------------------------------
(* Bounds of the model *)

\* longest source text enumerated exhaustively
MaxSrcLen == 3
\* inc/dec are explored while the cell stays within -MaxCell .. MaxCell
MaxCell == 257
\* calls of run explored on one interpreter
MaxRuns == 2
\* output-cell is explored while the output is shorter than MaxOut
MaxOut == 13

\* bytes the input channel may deliver
InBytes == {0, 1, 255}

----------------------------------------------------------------------------
(* Program constants *)

\* cells: vec![0; 1024]
TapeLen == 1024

\* the eight recognized characters and one character that is none of them
Chars == {">", "<", "+", "-", ".", ",", "[", "]", "x"}

\* 2^16: a u32 is held as two 16-bit halves, hi * 2^16 + lo
Half == 65536

----------------------------------------------------------------------------
(* Source texts *)

ShortSources == UNION {[1..n -> Chars] : n \in 0..MaxSrcLen}

\* move-pointer-right repeated until the data pointer reaches the tape length,
\* followed by one more instruction
AllRight == [n \in 1..(TapeLen + 1) |-> IF n <= TapeLen THEN ">" ELSE "+"]

ExtraSources ==
    { AllRight,
      <<"+", "[", ">", "+", "]">>,
      <<"+", "[", "[", "-", "]", "]", ".">>,
      <<"+", "+", "[", ">", "+", "[", "-", "]", "<", "-", "]", ">", ".">>,
      <<"[", "[", "]", "x", "]", "]", "[">>,
      <<"[", "x", "[", "]", "[">>,
      <<"-", "-", "[", ">", "+", "<", "+", "]", ">", ".", "<", "<">>,
      <<",", "[", ".", "-", "]">>,
      <<">", "+", "[", "<", "]", "-", "-", "+", "+">> }

Sources == ShortSources \cup ExtraSources

----------------------------------------------------------------------------
(* Interpreter::new *)

\* the match of the lexer without its ',' arm
IsSymbol_NoComma(c) == c \in {">", "<", "+", "-", ".", "[", "]"}

\* the arms of the match in code.chars().for_each that push a token
IsSymbol(c) == c \in {">", "<", "+", "-", ".", ",", "[", "]"}

\* the token pushed for a recognized character c
Token(c) ==
    CASE c = ">" -> "Incptr"
      [] c = "<" -> "Decptr"
      [] c = "+" -> "Incbyte"
      [] c = "-" -> "Decbyte"
      [] c = "." -> "Outbyte"
      [] c = "," -> "Inbyte"
      [] c = "[" -> "Forward"
      [] c = "]" -> "Backward"

\* first pass: every character in order pushes its token or, by the arm
\* `_ => {}`, nothing
Lex(code) ==
    LET kept == SelectSeq(code, IsSymbol)
    IN  [n \in 1..Len(kept) |-> Token(kept[n])]

\* the instruction at 0-indexed position i
Insn(prog, p) == prog[p + 1]

\* HashMap::insert
Insert(m, k, v) == [x \in (DOMAIN m) \cup {k} |-> IF x = k THEN v ELSE m[x]]

EmptyMap == [x \in {} |-> 0]

\* the state at the entry of the second pass of Interpreter::new(code): the
\* tokens are lexed, `jumps_loc` and `jumps` are empty, no interpreter exists
Init ==
    \E code \in Sources :
        /\ src = code
        /\ insns = Lex(code)
        /\ i = 0
        /\ jumps_loc = <<>>
        /\ jumps = EmptyMap
        /\ new_result = "none"
        /\ pc = "new"
        /\ ip = 0
        /\ dp = 0
        /\ cells = EmptyMap
        /\ output = <<>>
        /\ debug = FALSE
        /\ result = "none"
        /\ runs = 0
        /\ rd = [res |-> "none", n |-> 0, buf |-> 0]

\* the second pass `for (i, c) in insns.iter().enumerate()` is at position i
Scan(toks) ==
    /\ pc = "new"
    /\ i < Len(insns)
    /\ Insn(insns, i) \in toks

\* NewForward pushing the position after the loop-start
NewForward_OffByOne ==
    /\ Scan({"Forward"})
    /\ jumps_loc' = Append(jumps_loc, i + 1)
    /\ i' = i + 1
    /\ UNCHANGED <<rd, src, new_result, insns, jumps, ip, dp, cells, output, debug, pc,
                   result, runs>>

\* Token::Forward => jumps_loc.push(i)
NewForward ==
    /\ Scan({"Forward"})
    /\ jumps_loc' = Append(jumps_loc, i)
    /\ i' = i + 1
    /\ UNCHANGED <<rd, src, new_result, insns, jumps, ip, dp, cells, output, debug, pc,
                   result, runs>>

\* NewBackward pairing the loop-end with the oldest pending loop-start
NewBackward_Oldest ==
    /\ Scan({"Backward"})
    /\ IF jumps_loc = <<>>
       THEN /\ new_result' = "unbalanced brackets"
            /\ pc' = "idle"
            /\ UNCHANGED <<i, jumps_loc, jumps>>
       ELSE LET forward_ip == jumps_loc[1] IN
            /\ jumps_loc' = Tail(jumps_loc)
            /\ jumps' = Insert(Insert(jumps, i, forward_ip), forward_ip, i)
            /\ i' = i + 1
            /\ UNCHANGED <<new_result, pc>>
    /\ UNCHANGED <<rd, src, insns, ip, dp, cells, output, debug, result, runs>>

\* NewBackward recording only the jump from the loop-end to the loop-start
NewBackward_OneWay ==
    /\ Scan({"Backward"})
    /\ IF jumps_loc = <<>>
       THEN /\ new_result' = "unbalanced brackets"
            /\ pc' = "idle"
            /\ UNCHANGED <<i, jumps_loc, jumps>>
       ELSE LET forward_ip == jumps_loc[Len(jumps_loc)] IN
            /\ jumps_loc' = SubSeq(jumps_loc, 1, Len(jumps_loc) - 1)
            /\ jumps' = Insert(jumps, i, forward_ip)
            /\ i' = i + 1
            /\ UNCHANGED <<new_result, pc>>
    /\ UNCHANGED <<rd, src, insns, ip, dp, cells, output, debug, result, runs>>

\* NewBackward ignoring a loop-end met with an empty stack
NewBackward_SkipUnmatched ==
    /\ Scan({"Backward"})
    /\ IF jumps_loc = <<>>
       THEN /\ i' = i + 1
            /\ UNCHANGED <<new_result, pc, jumps_loc, jumps>>
       ELSE LET forward_ip == jumps_loc[Len(jumps_loc)] IN
            /\ jumps_loc' = SubSeq(jumps_loc, 1, Len(jumps_loc) - 1)
            /\ jumps' = Insert(Insert(jumps, i, forward_ip), forward_ip, i)
            /\ i' = i + 1
            /\ UNCHANGED <<new_result, pc>>
    /\ UNCHANGED <<rd, src, insns, ip, dp, cells, output, debug, result, runs>>

\* Token::Backward => match jumps_loc.pop(): None is Err(()), Some(forward_ip)
\* adds both jumps
NewBackward ==
    /\ Scan({"Backward"})
    /\ IF jumps_loc = <<>>
       THEN /\ new_result' = "unbalanced brackets"
            /\ pc' = "idle"
            /\ UNCHANGED <<i, jumps_loc, jumps>>
       ELSE LET forward_ip == jumps_loc[Len(jumps_loc)] IN
            /\ jumps_loc' = SubSeq(jumps_loc, 1, Len(jumps_loc) - 1)
            /\ jumps' = Insert(Insert(jumps, i, forward_ip), forward_ip, i)
            /\ i' = i + 1
            /\ UNCHANGED <<new_result, pc>>
    /\ UNCHANGED <<rd, src, insns, ip, dp, cells, output, debug, result, runs>>

\* `_ => {}`: any other token
NewOther ==
    /\ Scan({"Incptr", "Decptr", "Incbyte", "Decbyte", "Outbyte", "Inbyte"})
    /\ i' = i + 1
    /\ UNCHANGED <<rd, src, new_result, insns, jumps_loc, jumps, ip, dp, cells, output,
                   debug, pc, result, runs>>

\* NewReturn without the test of jumps_loc
NewReturn_NoCheck ==
    /\ pc = "new"
    /\ i >= Len(insns)
    /\ pc' = "idle"
    /\ new_result' = "Ok"
    /\ ip' = 0
    /\ dp' = 0
    /\ cells' = [c \in 0..(TapeLen - 1) |-> 0]
    /\ UNCHANGED <<rd, src, insns, i, jumps_loc, jumps, output, debug, result, runs>>

\* after the pass: Err(()) if jumps_loc is not empty, else Ok(Self {..})
NewReturn ==
    /\ pc = "new"
    /\ i >= Len(insns)
    /\ pc' = "idle"
    /\ IF jumps_loc # <<>>
       THEN /\ new_result' = "Missing closed brackets"
            /\ UNCHANGED <<ip, dp, cells>>
       ELSE /\ new_result' = "Ok"
            /\ ip' = 0
            /\ dp' = 0
            /\ cells' = [c \in 0..(TapeLen - 1) |-> 0]
    /\ UNCHANGED <<rd, src, insns, i, jumps_loc, jumps, output, debug, result, runs>>

----------------------------------------------------------------------------
(* Interpreter::run *)

\* Run starting over from the first instruction
Run_ResetIp ==
    /\ new_result = "Ok"
    /\ pc = "idle"
    /\ result # "panic"
    /\ runs < MaxRuns
    /\ \E d \in BOOLEAN : debug' = d
    /\ output' = <<>>
    /\ pc' = "loop"
    /\ result' = "none"
    /\ runs' = runs + 1
    /\ ip' = 0
    /\ UNCHANGED <<rd, src, new_result, insns, i, jumps_loc, jumps, dp, cells>>

\* a call run(d): `let mut output = String::default()` and entry of the loop
Run ==
    /\ new_result = "Ok"
    /\ pc = "idle"
    /\ result # "panic"
    /\ runs < MaxRuns
    /\ \E d \in BOOLEAN : debug' = d
    /\ output' = <<>>
    /\ pc' = "loop"
    /\ result' = "none"
    /\ runs' = runs + 1
    /\ UNCHANGED <<rd, src, new_result, insns, i, jumps_loc, jumps, ip, dp, cells>>

\* `self.insns.len() - 1` on an empty program: with overflow checks the
\* subtraction panics; without them it wraps to usize::MAX, the test
\* `ip > usize::MAX` is false and the fetch insns[ip] (in interpreter_state
\* when debug, else in the match) panics on the index.
EmptyPanic ==
    /\ pc = "loop"
    /\ Len(insns) = 0
    /\ pc' = "idle"
    /\ result' = "panic"
    /\ UNCHANGED <<rd, src, new_result, insns, i, jumps_loc, jumps, ip, dp, cells, output,
                   debug, runs>>

\* `if self.ip > self.insns.len() - 1 { break; }` then `Ok(output)`
Break ==
    /\ pc = "loop"
    /\ Len(insns) > 0
    /\ ip > Len(insns) - 1
    /\ pc' = "idle"
    /\ result' = "Ok"
    /\ UNCHANGED <<rd, src, new_result, insns, i, jumps_loc, jumps, ip, dp, cells, output,
                   debug, runs>>

\* the loop is about to execute the token tok at ip
Fetch(tok) ==
    /\ pc = "loop"
    /\ Len(insns) > 0
    /\ ip <= Len(insns) - 1
    /\ Insn(insns, ip) = tok

\* `return Err(())` with the message msg, before `self.ip += 1`
Halt(msg) ==
    /\ pc' = "idle"
    /\ result' = msg
    /\ ip' = ip

\* fall out of the match: `self.ip += 1` after the instruction set ip to p
Advance(p) ==
    /\ ip' = p + 1
    /\ pc' = "loop"
    /\ result' = result

\* Incptr testing `self.dp > self.cells.len()`
Incptr_OffByOne ==
    /\ Fetch("Incptr")
    /\ dp' = dp + 1
    /\ IF dp + 1 > TapeLen THEN Halt("Memory overflow") ELSE Advance(ip)
    /\ UNCHANGED <<rd, src, new_result, insns, i, jumps_loc, jumps, cells, output,
                   debug, runs>>

Incptr ==
    /\ Fetch("Incptr")
    /\ dp' = dp + 1
    /\ IF dp + 1 >= TapeLen THEN Halt("Memory overflow") ELSE Advance(ip)
    /\ UNCHANGED <<rd, src, new_result, insns, i, jumps_loc, jumps, cells, output,
                   debug, runs>>

\* Decptr as a saturating subtraction that never fails
Decptr_Saturating ==
    /\ Fetch("Decptr")
    /\ Advance(ip)
    /\ dp' = IF dp = 0 THEN 0 ELSE dp - 1
    /\ UNCHANGED <<rd, src, new_result, insns, i, jumps_loc, jumps, cells, output,
                   debug, runs>>

Decptr ==
    /\ Fetch("Decptr")
    /\ IF dp = 0
       THEN Halt("Memory underflow") /\ dp' = dp
       ELSE Advance(ip) /\ dp' = dp - 1
    /\ UNCHANGED <<rd, src, new_result, insns, i, jumps_loc, jumps, cells, output,
                   debug, runs>>

Incbyte ==
    /\ Fetch("Incbyte")
    /\ cells[dp] < MaxCell
    /\ cells' = [cells EXCEPT ![dp] = @ + 1]
    /\ Advance(ip)
    /\ UNCHANGED <<rd, src, new_result, insns, i, jumps_loc, jumps, dp, output,
                   debug, runs>>

\* Decbyte on a wrapping 8-bit cell
Decbyte_Wrap8 ==
    /\ Fetch("Decbyte")
    /\ cells[dp] > -MaxCell
    /\ cells' = [cells EXCEPT ![dp] = (@ - 1) % 256]
    /\ Advance(ip)
    /\ UNCHANGED <<rd, src, new_result, insns, i, jumps_loc, jumps, dp, output,
                   debug, runs>>

Decbyte ==
    /\ Fetch("Decbyte")
    /\ cells[dp] > -MaxCell
    /\ cells' = [cells EXCEPT ![dp] = @ - 1]
    /\ Advance(ip)
    /\ UNCHANGED <<rd, src, new_result, insns, i, jumps_loc, jumps, dp, output,
                   debug, runs>>

\* `v as u32` for an isize v: the low 32 bits of the two's complement of v
AsU32(v) == [hi |-> (v \div Half) % Half, lo |-> v % Half]

\* char::from_u32(u) is Some: u is a Unicode scalar value, that is
\* u <= 0x10FFFF and u is not a surrogate 0xD800 ..= 0xDFFF
IsChar(u) == u.hi <= 16 /\ ~(u.hi = 0 /\ u.lo >= 55296 /\ u.lo <= 57343)

\* the code point of the char that char::from_u32(u) returns
CodePoint(u) == u.hi * Half + u.lo

Outbyte ==
    /\ Fetch("Outbyte")
    /\ Len(output) < MaxOut
    /\ output' = IF IsChar(AsU32(cells[dp]))
                 THEN Append(output, CodePoint(AsU32(cells[dp])))
                 ELSE output
    /\ Advance(ip)
    /\ UNCHANGED <<rd, src, new_result, insns, i, jumps_loc, jumps, dp, cells,
                   debug, runs>>

\* An isize cell beyond the 32 bits of the checker's integers, as the record
\* [top, hi, lo] of the value top * 2^32 + hi * 2^16 + lo: top is the signed
\* upper half of the 64 bits, hi and lo are the two 16-bit halves below it.
WideZero == [top |-> 0, hi |-> 0, lo |-> 0]

\* `v as u32` for a cell in that form: the upper half is dropped
AsU32Wide(w) == [hi |-> w.hi, lo |-> w.lo]

\* Token::Outbyte on a tape whose cells are in that form
OutbyteWide ==
    /\ Fetch("Outbyte")
    /\ Len(output) < MaxOut
    /\ output' = IF IsChar(AsU32Wide(cells[dp]))
                 THEN Append(output, CodePoint(AsU32Wide(cells[dp])))
                 ELSE output
    /\ Advance(ip)
    /\ UNCHANGED <<rd, src, new_result, insns, i, jumps_loc, jumps, dp, cells,
                   debug, runs>>

\* Token::Inbyte without the `if n > 0` test: buf[0], still 0 at end of input,
\* is stored after every successful read
Inbyte_NoCountCheck ==
    /\ Fetch("Inbyte")
    /\ \/ /\ rd' = [res |-> "Err", n |-> 0, buf |-> 0]
          /\ Halt("Failed to read byte from stdin")
          /\ cells' = cells
       \/ /\ rd' = [res |-> "Ok", n |-> 0, buf |-> 0]
          /\ Advance(ip)
          /\ cells' = [cells EXCEPT ![dp] = rd'.buf]
       \/ \E b \in InBytes :
             /\ rd' = [res |-> "Ok", n |-> 1, buf |-> b]
             /\ Advance(ip)
             /\ cells' = [cells EXCEPT ![dp] = rd'.buf]
    /\ UNCHANGED <<src, new_result, insns, i, jumps_loc, jumps, dp, output,
                   debug, runs>>

\* `let mut buf: [u8; 1] = [0]` and std::io::stdin().read(&mut buf): Err(e),
\* Ok(0), or Ok(1) with buf[0] = b; the cell is written only `if n > 0`
Inbyte ==
    /\ Fetch("Inbyte")
    /\ \/ /\ rd' = [res |-> "Err", n |-> 0, buf |-> 0]
          /\ Halt("Failed to read byte from stdin")
          /\ cells' = cells
       \/ /\ rd' = [res |-> "Ok", n |-> 0, buf |-> 0]
          /\ Advance(ip)
          /\ cells' = cells
       \/ \E b \in InBytes :
             /\ rd' = [res |-> "Ok", n |-> 1, buf |-> b]
             /\ Advance(ip)
             /\ cells' = [cells EXCEPT ![dp] = rd'.buf]
    /\ UNCHANGED <<src, new_result, insns, i, jumps_loc, jumps, dp, output,
                   debug, runs>>

\* Forward jumping when the cell is not 0
Forward_NoSkip ==
    /\ Fetch("Forward")
    /\ IF cells[dp] # 0
       THEN IF ip \in DOMAIN jumps
            THEN Advance(jumps[ip])
            ELSE Halt("Failed to match bracket")
       ELSE Advance(ip)
    /\ UNCHANGED <<rd, src, new_result, insns, i, jumps_loc, jumps, dp, cells, output,
                   debug, runs>>

\* Forward resuming two positions after the loop-end
Forward_PastEnd ==
    /\ Fetch("Forward")
    /\ IF cells[dp] = 0
       THEN IF ip \in DOMAIN jumps
            THEN Advance(jumps[ip] + 1)
            ELSE Halt("Failed to match bracket")
       ELSE Advance(ip)
    /\ UNCHANGED <<rd, src, new_result, insns, i, jumps_loc, jumps, dp, cells, output,
                   debug, runs>>

Forward ==
    /\ Fetch("Forward")
    /\ IF cells[dp] = 0
       THEN IF ip \in DOMAIN jumps
            THEN Advance(jumps[ip])
            ELSE Halt("Failed to match bracket")
       ELSE Advance(ip)
    /\ UNCHANGED <<rd, src, new_result, insns, i, jumps_loc, jumps, dp, cells, output,
                   debug, runs>>

\* Backward resuming at the loop-start itself (`continue` without ip += 1)
Backward_Retest ==
    /\ Fetch("Backward")
    /\ IF cells[dp] # 0
       THEN IF ip \in DOMAIN jumps
            THEN Advance(jumps[ip] - 1)
            ELSE Halt("Failed to match bracket")
       ELSE Advance(ip)
    /\ UNCHANGED <<rd, src, new_result, insns, i, jumps_loc, jumps, dp, cells, output,
                   debug, runs>>

\* Backward never going back into the body
Backward_FallThrough ==
    /\ Fetch("Backward")
    /\ Advance(ip)
    /\ UNCHANGED <<rd, src, new_result, insns, i, jumps_loc, jumps, dp, cells, output,
                   debug, runs>>

\* Backward resuming one instruction too far into the body
Backward_OffByOne ==
    /\ Fetch("Backward")
    /\ IF cells[dp] # 0
       THEN IF ip \in DOMAIN jumps
            THEN Advance(jumps[ip] + 1)
            ELSE Halt("Failed to match bracket")
       ELSE Advance(ip)
    /\ UNCHANGED <<rd, src, new_result, insns, i, jumps_loc, jumps, dp, cells, output,
                   debug, runs>>

Backward ==
    /\ Fetch("Backward")
    /\ IF cells[dp] # 0
       THEN IF ip \in DOMAIN jumps
            THEN Advance(jumps[ip])
            ELSE Halt("Failed to match bracket")
       ELSE Advance(ip)
    /\ UNCHANGED <<rd, src, new_result, insns, i, jumps_loc, jumps, dp, cells, output,
                   debug, runs>>

\* one step of the match at the current instruction
Step ==
    \/ Incptr
    \/ Decptr
    \/ Incbyte
    \/ Decbyte
    \/ Outbyte
    \/ Inbyte
    \/ Forward
    \/ Backward

Next ==
    \/ NewForward
    \/ NewBackward
    \/ NewOther
    \/ NewReturn
    \/ Run
    \/ EmptyPanic
    \/ Break
    \/ Step

Spec == Init /\ [][Next]_vars

----------------------------------------------------------------------------
(* The two programs of the tests *)

\* the source text of tests::github_profile
github_profile_src ==
    <<
      "\n", " ", " ", " ", " ", " ", " ", " ", " ", " ", " ", " ",
      " ", "+", "+", "+", "+", "+", " ", "+", "+", "+", " ", "[",
      " ", ">", "+", "+", "+", "+", "+", " ", "+", " ", "[", " ",
      ">", "+", ">", "+", "+", ">", "+", "+", "<", "<", "<", "-",
      " ", "]", " ", ">", ">", "+", ">", "+", "+", ">", "+", " ",
      "[", " ", "<", " ", "]", " ", "<", "-", " ", "]", " ", ">",
      ">", ">", "-", ".", ">", "+", "+", "+", "+", ".", "<", "+",
      ".", ">", "+", "+", ".", "-", "-", "-", "-", "-", "-", "-",
      "-", ".", "\n", " ", " ", " ", " ", " ", " ", " ", " ", " ",
      " ", " ", " "
    >>

\* the source text of tests::hello_test
hello_test_src ==
    <<
      " ", "s", "o", "u", "r", "c", "e", ":", " ", "w", "i", "k",
      "i", "p", "e", "d", "i", "a", "/", "B", "r", "a", "i", "n",
      "f", "u", "c", "k", "\n", "+", "+", "+", "+", "+", "+", "+",
      "+", " ", " ", " ", " ", " ", " ", " ", " ", " ", " ", " ",
      " ", " ", " ", " ", " ", "S", "e", "t", " ", "C", "e", "l",
      "l", " ", "#", "0", " ", "t", "o", " ", "8", "\n", "[", "\n",
      " ", " ", " ", " ", ">", "+", "+", "+", "+", " ", " ", " ",
      " ", " ", " ", " ", " ", " ", " ", " ", " ", " ", " ", " ",
      "A", "d", "d", " ", "4", " ", "t", "o", " ", "C", "e", "l",
      "l", " ", "#", "1", ";", " ", "t", "h", "i", "s", " ", "w",
      "i", "l", "l", " ", "a", "l", "w", "a", "y", "s", " ", "s",
      "e", "t", " ", "C", "e", "l", "l", " ", "#", "1", " ", "t",
      "o", " ", "4", "\n", " ", " ", " ", " ", "[", " ", " ", " ",
      " ", " ", " ", " ", " ", " ", " ", " ", " ", " ", " ", " ",
      " ", " ", " ", " ", "a", "s", " ", "t", "h", "e", " ", "c",
      "e", "l", "l", " ", "w", "i", "l", "l", " ", "b", "e", " ",
      "c", "l", "e", "a", "r", "e", "d", " ", "b", "y", " ", "t",
      "h", "e", " ", "l", "o", "o", "p", "\n", " ", " ", " ", " ",
      " ", " ", " ", " ", ">", "+", "+", " ", " ", " ", " ", " ",
      " ", " ", " ", " ", " ", " ", " ", " ", "A", "d", "d", " ",
      "2", " ", "t", "o", " ", "C", "e", "l", "l", " ", "#", "2",
      "\n", " ", " ", " ", " ", " ", " ", " ", " ", ">", "+", "+",
      "+", " ", " ", " ", " ", " ", " ", " ", " ", " ", " ", " ",
      " ", "A", "d", "d", " ", "3", " ", "t", "o", " ", "C", "e",
      "l", "l", " ", "#", "3", "\n", " ", " ", " ", " ", " ", " ",
      " ", " ", ">", "+", "+", "+", " ", " ", " ", " ", " ", " ",
      " ", " ", " ", " ", " ", " ", "A", "d", "d", " ", "3", " ",
      "t", "o", " ", "C", "e", "l", "l", " ", "#", "4", "\n", " ",
      " ", " ", " ", " ", " ", " ", " ", ">", "+", " ", " ", " ",
      " ", " ", " ", " ", " ", " ", " ", " ", " ", " ", " ", "A",
      "d", "d", " ", "1", " ", "t", "o", " ", "C", "e", "l", "l",
      " ", "#", "5", "\n", " ", " ", " ", " ", " ", " ", " ", " ",
      "<", "<", "<", "<", "-", " ", " ", " ", " ", " ", " ", " ",
      " ", " ", " ", " ", "D", "e", "c", "r", "e", "m", "e", "n",
      "t", " ", "t", "h", "e", " ", "l", "o", "o", "p", " ", "c",
      "o", "u", "n", "t", "e", "r", " ", "i", "n", " ", "C", "e",
      "l", "l", " ", "#", "1", "\n", " ", " ", " ", " ", "]", " ",
      " ", " ", " ", " ", " ", " ", " ", " ", " ", " ", " ", " ",
      " ", " ", " ", " ", " ", " ", "L", "o", "o", "p", " ", "u",
      "n", "t", "i", "l", " ", "C", "e", "l", "l", " ", "#", "1",
      " ", "i", "s", " ", "z", "e", "r", "o", ";", " ", "n", "u",
      "m", "b", "e", "r", " ", "o", "f", " ", "i", "t", "e", "r",
      "a", "t", "i", "o", "n", "s", " ", "i", "s", " ", "4", "\n",
      " ", " ", " ", " ", ">", "+", " ", " ", " ", " ", " ", " ",
      " ", " ", " ", " ", " ", " ", " ", " ", " ", " ", " ", " ",
      "A", "d", "d", " ", "1", " ", "t", "o", " ", "C", "e", "l",
      "l", " ", "#", "2", "\n", " ", " ", " ", " ", ">", "+", " ",
      " ", " ", " ", " ", " ", " ", " ", " ", " ", " ", " ", " ",
      " ", " ", " ", " ", " ", "A", "d", "d", " ", "1", " ", "t",
      "o", " ", "C", "e", "l", "l", " ", "#", "3", "\n", " ", " ",
      " ", " ", ">", "-", " ", " ", " ", " ", " ", " ", " ", " ",
      " ", " ", " ", " ", " ", " ", " ", " ", " ", " ", "S", "u",
      "b", "t", "r", "a", "c", "t", " ", "1", " ", "f", "r", "o",
      "m", " ", "C", "e", "l", "l", " ", "#", "4", "\n", " ", " ",
      " ", " ", ">", ">", "+", " ", " ", " ", " ", " ", " ", " ",
      " ", " ", " ", " ", " ", " ", " ", " ", " ", " ", "A", "d",
      "d", " ", "1", " ", "t", "o", " ", "C", "e", "l", "l", " ",
      "#", "6", "\n", " ", " ", " ", " ", "[", "<", "]", " ", " ",
      " ", " ", " ", " ", " ", " ", " ", " ", " ", " ", " ", " ",
      " ", " ", " ", "M", "o", "v", "e", " ", "b", "a", "c", "k",
      " ", "t", "o", " ", "t", "h", "e", " ", "f", "i", "r", "s",
      "t", " ", "z", "e", "r", "o", " ", "c", "e", "l", "l", " ",
      "y", "o", "u", " ", "f", "i", "n", "d", ";", " ", "t", "h",
      "i", "s", " ", "w", "i", "l", "l", "\n", " ", " ", " ", " ",
      " ", " ", " ", " ", " ", " ", " ", " ", " ", " ", " ", " ",
      " ", " ", " ", " ", " ", " ", " ", " ", "b", "e", " ", "C",
      "e", "l", "l", " ", "#", "1", " ", "w", "h", "i", "c", "h",
      " ", "w", "a", "s", " ", "c", "l", "e", "a", "r", "e", "d",
      " ", "b", "y", " ", "t", "h", "e", " ", "p", "r", "e", "v",
      "i", "o", "u", "s", " ", "l", "o", "o", "p", "\n", " ", " ",
      " ", " ", "<", "-", " ", " ", " ", " ", " ", " ", " ", " ",
      " ", " ", " ", " ", " ", " ", " ", " ", " ", " ", "D", "e",
      "c", "r", "e", "m", "e", "n", "t", " ", "t", "h", "e", " ",
      "l", "o", "o", "p", " ", "C", "o", "u", "n", "t", "e", "r",
      " ", "i", "n", " ", "C", "e", "l", "l", " ", "#", "0", "\n",
      "]", " ", " ", " ", " ", " ", " ", " ", " ", " ", " ", " ",
      " ", " ", " ", " ", " ", " ", " ", " ", " ", " ", " ", " ",
      "L", "o", "o", "p", " ", "u", "n", "t", "i", "l", " ", "C",
      "e", "l", "l", " ", "#", "0", " ", "i", "s", " ", "z", "e",
      "r", "o", ";", " ", "n", "u", "m", "b", "e", "r", " ", "o",
      "f", " ", "i", "t", "e", "r", "a", "t", "i", "o", "n", "s",
      " ", "i", "s", " ", "8", "\n", "\n", "T", "h", "e", " ", "r",
      "e", "s", "u", "l", "t", " ", "o", "f", " ", "t", "h", "i",
      "s", " ", "i", "s", ":", "\n", "C", "e", "l", "l", " ", "n",
      "o", " ", ":", " ", " ", " ", "0", " ", " ", " ", "1", " ",
      " ", " ", "2", " ", " ", " ", "3", " ", " ", " ", "4", " ",
      " ", " ", "5", " ", " ", " ", "6", "\n", "C", "o", "n", "t",
      "e", "n", "t", "s", ":", " ", " ", " ", "0", " ", " ", " ",
      "0", " ", " ", "7", "2", " ", "1", "0", "4", " ", " ", "8",
      "8", " ", " ", "3", "2", " ", " ", " ", "8", "\n", "P", "o",
      "i", "n", "t", "e", "r", " ", ":", " ", " ", " ", "^", "\n",
      "\n", ">", ">", ".", " ", " ", " ", " ", " ", " ", " ", " ",
      " ", " ", " ", " ", " ", " ", " ", " ", " ", " ", " ", " ",
      " ", "C", "e", "l", "l", " ", "#", "2", " ", "h", "a", "s",
      " ", "v", "a", "l", "u", "e", " ", "7", "2", " ", "w", "h",
      "i", "c", "h", " ", "i", "s", " ", "'", "H", "'", "\n", ">",
      "-", "-", "-", ".", " ", " ", " ", " ", " ", " ", " ", " ",
      " ", " ", " ", " ", " ", " ", " ", " ", " ", " ", " ", "S",
      "u", "b", "t", "r", "a", "c", "t", " ", "3", " ", "f", "r",
      "o", "m", " ", "C", "e", "l", "l", " ", "#", "3", " ", "t",
      "o", " ", "g", "e", "t", " ", "1", "0", "1", " ", "w", "h",
      "i", "c", "h", " ", "i", "s", " ", "'", "e", "'", "\n", "+",
      "+", "+", "+", "+", "+", "+", ".", ".", "+", "+", "+", ".",
      " ", " ", " ", " ", " ", " ", " ", " ", " ", " ", " ", "L",
      "i", "k", "e", "w", "i", "s", "e", " ", "f", "o", "r", " ",
      "'", "l", "l", "o", "'", " ", "f", "r", "o", "m", " ", "C",
      "e", "l", "l", " ", "#", "3", "\n", ">", ">", ".", " ", " ",
      " ", " ", " ", " ", " ", " ", " ", " ", " ", " ", " ", " ",
      " ", " ", " ", " ", " ", " ", " ", "C", "e", "l", "l", " ",
      "#", "5", " ", "i", "s", " ", "3", "2", " ", "f", "o", "r",
      " ", "t", "h", "e", " ", "s", "p", "a", "c", "e", "\n", "<",
      "-", ".", " ", " ", " ", " ", " ", " ", " ", " ", " ", " ",
      " ", " ", " ", " ", " ", " ", " ", " ", " ", " ", " ", "S",
      "u", "b", "t", "r", "a", "c", "t", " ", "1", " ", "f", "r",
      "o", "m", " ", "C", "e", "l", "l", " ", "#", "4", " ", "f",
      "o", "r", " ", "8", "7", " ", "t", "o", " ", "g", "i", "v",
      "e", " ", "a", " ", "'", "W", "'", "\n", "<", ".", " ", " ",
      " ", " ", " ", " ", " ", " ", " ", " ", " ", " ", " ", " ",
      " ", " ", " ", " ", " ", " ", " ", " ", "C", "e", "l", "l",
      " ", "#", "3", " ", "w", "a", "s", " ", "s", "e", "t", " ",
      "t", "o", " ", "'", "o", "'", " ", "f", "r", "o", "m", " ",
      "t", "h", "e", " ", "e", "n", "d", " ", "o", "f", " ", "'",
      "H", "e", "l", "l", "o", "'", "\n", "+", "+", "+", ".", "-",
      "-", "-", "-", "-", "-", ".", "-", "-", "-", "-", "-", "-",
      "-", "-", ".", " ", " ", " ", " ", "C", "e", "l", "l", " ",
      "#", "3", " ", "f", "o", "r", " ", "'", "r", "l", "'", " ",
      "a", "n", "d", " ", "'", "d", "'", "\n", ">", ">", "+", ".",
      " ", " ", " ", " ", " ", " ", " ", " ", " ", " ", " ", " ",
      " ", " ", " ", " ", " ", " ", " ", " ", "A", "d", "d", " ",
      "1", " ", "t", "o", " ", "C", "e", "l", "l", " ", "#", "5",
      " ", "g", "i", "v", "e", "s", " ", "u", "s", " ", "a", "n",
      " ", "e", "x", "c", "l", "a", "m", "a", "t", "i", "o", "n",
      " ", "p", "o", "i", "n", "t", "\n", ">", "+", "+", ".", " ",
      " ", " ", " ", " ", " ", " ", " ", " ", " ", " ", " ", " ",
      " ", " ", " ", " ", " ", " ", " ", "A", "n", "d", " ", "f",
      "i", "n", "a", "l", "l", "y", " ", "a", " ", "n", "e", "w",
      "l", "i", "n", "e", " ", "f", "r", "o", "m", " ", "C", "e",
      "l", "l", " ", "#", "6", "\n", " ", " ", " ", " ", " ", " ",
      " ", " ", " ", " ", " ", " "
    >>

\* Interpreter::new on the text of one of the two tests
InitRef ==
    \E code \in {github_profile_src, hello_test_src} :
        /\ src = code
        /\ insns = Lex(code)
        /\ i = 0
        /\ jumps_loc = <<>>
        /\ jumps = EmptyMap
        /\ new_result = "none"
        /\ pc = "new"
        /\ ip = 0
        /\ dp = 0
        /\ cells = EmptyMap
        /\ output = <<>>
        /\ debug = FALSE
        /\ result = "none"
        /\ runs = 0
        /\ rd = [res |-> "none", n |-> 0, buf |-> 0]

\* the steps of new and run that these programs take: they hold no `,`
NextRef ==
    \/ NewForward
    \/ NewBackward
    \/ NewOther
    \/ NewReturn
    \/ Run
    \/ Break
    \/ Incptr
    \/ Decptr
    \/ Incbyte
    \/ Decbyte
    \/ Outbyte
    \/ Forward
    \/ Backward

\* new and run go on until they return: the program is one thread, and no
\* step of these two programs waits for anything
SpecRef == InitRef /\ [][NextRef]_vars /\ WF_vars(NextRef)

----------------------------------------------------------------------------
(* Output of a cell of any 64-bit value *)

\* cell 0 counts the turns of a loop that runs until a 0 byte is read into
\* cell 1, upwards in CountUp and downwards in CountDown, and is then output
CountUp == <<">", "+", "[", "<", "+", ">", ",", "]", "<", ".">>

CountDown == <<">", "+", "[", "<", "-", ">", ",", "]", "<", ".">>

\* the counts explored: around 0, the surrogates, 0x10FFFF, 2^32 and 2^63
WideValues ==
    [top : {-2, -1, 0, 1, 2, 2147483647},
     hi : {0, 1, 16, 17, 65535},
     lo : {0, 65, 55295, 55296, 57343, 57344, 65535}]

\* the state of run when the counting loop has ended and the output
\* instruction (position 9) is next: cell 0 holds the count w, positive after
\* CountUp and negative after CountDown, and the last read delivered the 0 byte
InitOut ==
    \E code \in {CountUp, CountDown}, d \in BOOLEAN, w \in WideValues :
        /\ code = CountUp => (w.top >= 0 /\ w # WideZero)
        /\ code = CountDown => w.top < 0
        /\ src = code
        /\ insns = Lex(code)
        /\ i = Len(Lex(code))
        /\ jumps_loc = <<>>
        /\ jumps = Insert(Insert(EmptyMap, 7, 2), 2, 7)
        /\ new_result = "Ok"
        /\ pc = "loop"
        /\ ip = 9
        /\ dp = 0
        /\ cells = [c \in 0..(TapeLen - 1) |-> IF c = 0 THEN w ELSE WideZero]
        /\ output = <<>>
        /\ debug = d
        /\ result = "none"
        /\ runs = 1
        /\ rd = [res |-> "Ok", n |-> 1, buf |-> 0]

NextOut ==
    \/ OutbyteWide
    \/ Break

SpecOut == InitOut /\ [][NextOut]_vars

----------------------------------------------------------------------------
(* Bracket structure of the program, stated without the stack *)

Opens == {p \in 0..(Len(insns) - 1) : Insn(insns, p) = "Forward"}

Closes == {p \in 0..(Len(insns) - 1) : Insn(insns, p) = "Backward"}

\* loop-starts minus loop-ends among the positions before p
DepthBefore(p) ==
    Cardinality({q \in Opens : q < p}) - Cardinality({q \in Closes : q < p})

\* the loop-ends that end a prefix with more loop-ends than loop-starts
ExcessEnds == {p \in Closes : DepthBefore(p + 1) < 0}

WellNested == ExcessEnds = {} /\ Cardinality(Opens) = Cardinality(Closes)

Least(S) == CHOOSE x \in S : \A y \in S : x <= y

Greatest(S) == CHOOSE x \in S : \A y \in S : x >= y

\* the loop-end closing the loop-start at s, and the loop-start of the loop-end at e
MatchingEnd(s) == Least({e \in Closes : e > s /\ DepthBefore(e + 1) = DepthBefore(s)})

MatchingStart(e) ==
    Greatest({o \in Opens : o < e /\ DepthBefore(o) = DepthBefore(e + 1)})

\* no interpreter was produced: nothing was allocated and run is never called
NoInterpreter == cells = EmptyMap /\ runs = 0 /\ pc = "idle" /\ result = "none"

----------------------------------------------------------------------------
(* Claims *)

\* C1: once ip is at or past the end of the Program the call of run has
\* returned success with the accumulated output, for every Program length
\* including 0; on the empty Program that output is empty.
C1_RunEndsOk ==
    (new_result = "Ok" /\ runs >= 1 /\ ip >= Len(insns))
        => /\ pc = "loop" \/ result = "Ok"
           /\ pc = "idle" /\ Len(insns) = 0 => result = "Ok" /\ output = <<>>

\* C2: in every state of a constructed interpreter, also the one a Memory
\* overflow or Memory underflow leaves behind, 0 <= dp < tape length.
C2_DpInTape == new_result = "Ok" => (0 <= dp /\ dp < TapeLen)

\* C3: a loop-start executed on a zero cell continues at the position after
\* its matching loop-end, on a non-zero cell at ip + 1; dp, the tape and the
\* output are unchanged.
C3_LoopStart ==
    [][Fetch("Forward") =>
          /\ ip' = IF cells[dp] = 0 THEN MatchingEnd(ip) + 1 ELSE ip + 1
          /\ pc' = "loop"
          /\ UNCHANGED <<dp, cells, output>>]_vars

\* a loop whose body is an increment has been skipped on the untouched tape
C3_Witness ==
    /\ pc = "loop" /\ runs = 1
    /\ ip = 3
    /\ Insn(insns, ip - 1) = "Backward"
    /\ (ip - 1) \in DOMAIN jumps
    /\ jumps[ip - 1] = ip - 3
    /\ Insn(insns, ip - 2) = "Incbyte"
    /\ \A c \in DOMAIN cells : cells[c] = 0

\* C4: a loop-end executed on a non-zero cell, positive or negative,
\* continues at the position after its matching loop-start, on a zero cell at
\* ip + 1; dp, the tape and the output are unchanged.
C4_LoopEnd ==
    [][Fetch("Backward") =>
          /\ ip' = IF cells[dp] # 0 THEN MatchingStart(ip) + 1 ELSE ip + 1
          /\ pc' = "loop"
          /\ UNCHANGED <<dp, cells, output>>]_vars

\* the body of `--[>+<+]` has been re-entered with a negative cell
C4_Witness ==
    /\ pc = "loop" /\ runs = 1
    /\ ip >= 1
    /\ Insn(insns, ip - 1) = "Forward"
    /\ cells[0] = -1 /\ cells[1] = 1
    /\ dp = 0

\* C5: for a Program with well nested brackets the jump table built by new
\* has exactly the bracket positions as keys and is an involution on them.
C5_JumpsInvolution ==
    (pc # "new" /\ WellNested)
        => /\ DOMAIN jumps = Opens \cup Closes
           /\ \A k \in DOMAIN jumps :
                 jumps[k] \in DOMAIN jumps /\ jumps[jumps[k]] = k

\* a table of two nested or consecutive loops, with other tokens around
C5_Witness ==
    /\ pc = "idle" /\ new_result = "Ok"
    /\ Cardinality(DOMAIN jumps) >= 4
    /\ Len(insns) > Cardinality(DOMAIN jumps)

\* C6: new fails with "unbalanced brackets", producing no interpreter, exactly
\* when some prefix of the Program has more loop-ends than loop-starts, and it
\* fails at the first such loop-end with no later token examined.
C6_Unbalanced ==
    pc # "new" =>
        /\ new_result = "unbalanced brackets" <=> ExcessEnds # {}
        /\ new_result = "unbalanced brackets" =>
              /\ i = Least(ExcessEnds)
              /\ DOMAIN jumps \subseteq 0..(i - 1)
              /\ NoInterpreter

\* new failed at a loop-end that has tokens, and other brackets, after it
C6_Witness ==
    /\ new_result = "unbalanced brackets"
    /\ i + 1 < Len(insns)
    /\ DOMAIN jumps # {}
    /\ \E p \in Opens : p > i

\* C7: new fails with "Missing closed brackets", producing no interpreter,
\* exactly when no loop-end is unmatched and some loop-start is never closed;
\* new succeeds exactly when neither failure condition occurs.
C7_MissingClosed ==
    pc # "new" =>
        /\ new_result = "Missing closed brackets"
              <=> (ExcessEnds = {} /\ Cardinality(Opens) > Cardinality(Closes))
        /\ new_result = "Missing closed brackets" => NoInterpreter
        /\ new_result = "Ok" <=> WellNested
        /\ new_result \in {"Ok", "unbalanced brackets", "Missing closed brackets"}

\* new failed on a Program with a closed loop and loop-starts left open
C7_Witness ==
    /\ new_result = "Missing closed brackets"
    /\ DOMAIN jumps # {}
    /\ Len(jumps_loc) >= 1
    /\ i = Len(insns)

\* C8: move-pointer-right adds 1 to dp and fails with Memory overflow exactly
\* when that makes dp reach the tape length; in the first run of AllRight the
\* failure is at the instruction of position TapeLen - 1; after the failure
\* nothing happens but a new call of run.
C8_MemoryOverflow ==
    [][/\ Fetch("Incptr") =>
            /\ dp' = dp + 1
            /\ UNCHANGED <<cells, output>>
            /\ dp < TapeLen - 1 => (pc' = "loop" /\ result' = "none" /\ ip' = ip + 1)
            /\ dp = TapeLen - 1 => (pc' = "idle" /\ result' = "Memory overflow")
            /\ result' = "Memory overflow" => (dp' >= TapeLen /\ ip' = ip)
       /\ (src = AllRight /\ runs' = 1 /\ result' = "Memory overflow")
            => (ip' = TapeLen - 1 /\ \A c \in DOMAIN cells : cells'[c] = 0)
       /\ (pc = "idle" /\ result = "Memory overflow")
            => (pc' = "loop" /\ runs' = runs + 1 /\ UNCHANGED <<ip, dp, cells>>)
      ]_vars

\* the first run of AllRight has failed at its TapeLen-th instruction
C8_Witness ==
    /\ src = AllRight
    /\ runs = 1
    /\ pc = "idle"
    /\ result = "Memory overflow"
    /\ ip = TapeLen - 1

\* C9: move-pointer-left at dp = 0 fails with Memory underflow and leaves ip,
\* dp and the tape as they were, and nothing follows but a new call of run;
\* at dp > 0 it subtracts 1 from dp and does not fail.
C9_MemoryUnderflow ==
    [][/\ Fetch("Decptr") =>
            /\ UNCHANGED <<cells, output>>
            /\ dp = 0 => /\ pc' = "idle" /\ result' = "Memory underflow"
                         /\ UNCHANGED <<ip, dp>>
            /\ dp > 0 => /\ pc' = "loop" /\ result' = "none"
                         /\ dp' = dp - 1 /\ ip' = ip + 1
       /\ (pc = "idle" /\ result = "Memory underflow")
            => (pc' = "loop" /\ runs' = runs + 1 /\ UNCHANGED <<ip, dp, cells>>)
      ]_vars

\* a run has failed with Memory underflow on a tape it had written
C9_Witness ==
    /\ pc = "idle"
    /\ result = "Memory underflow"
    /\ dp = 0
    /\ ip >= 1
    /\ \E c \in DOMAIN cells : cells[c] # 0

\* C10: increment-cell and decrement-cell change the cell at dp by exactly +1
\* and -1 as a signed integer, with no clamping and no wraparound (0 goes to
\* -1 and back to 0, 255 to 256); other cells, dp and the output are unchanged.
C10_IncDec ==
    [][/\ Fetch("Incbyte") =>
            /\ cells' = [cells EXCEPT ![dp] = cells[dp] + 1]
            /\ pc' = "loop" /\ ip' = ip + 1
            /\ UNCHANGED <<dp, output>>
       /\ Fetch("Decbyte") =>
            /\ cells' = [cells EXCEPT ![dp] = cells[dp] - 1]
            /\ cells[dp] = 0 => cells'[dp] = -1
            /\ pc' = "loop" /\ ip' = ip + 1
            /\ UNCHANGED <<dp, output>>
      ]_vars

\* a cell decremented from 0 has been incremented back to 0
C10_Witness ==
    /\ pc = "loop" /\ runs = 1
    /\ ip >= 2
    /\ Insn(insns, ip - 2) = "Decbyte"
    /\ Insn(insns, ip - 1) = "Incbyte"
    /\ ip = 2
    /\ cells[0] = 0

\* the 64-bit cell w holds a Unicode scalar value: 0 <= w <= 0x10FFFF and w
\* is not a surrogate
IsScalarValue(w) ==
    /\ w.top = 0
    /\ w.hi <= 16
    /\ ~(w.hi = 0 /\ w.lo >= 55296 /\ w.lo <= 57343)

\* C11: output-cell appends exactly the character whose code point is the
\* signed value of the current cell when that value is a Unicode scalar value,
\* and appends nothing for every other value (negative, surrogate, above
\* 0x10FFFF, also beyond 32 bits); the tape and dp are unchanged.
C11_OutputCell ==
    [][Fetch("Outbyte") =>
          /\ output' = IF IsScalarValue(cells[dp])
                       THEN Append(output, cells[dp].hi * Half + cells[dp].lo)
                       ELSE output
          /\ pc' = "loop" /\ ip' = ip + 1
          /\ UNCHANGED <<dp, cells>>]_vars

\* C12: input-cell takes at most one byte from the channel. A byte b (0..255)
\* replaces the current cell whatever it held; at end of input every cell is
\* left as it was and no error is raised; in both cases the run goes on at
\* ip + 1. Only a failure of the read halts the run, with a fatal error.
C12_InputCell ==
    [][Fetch("Inbyte") =>
          /\ rd'.res \in {"Ok", "Err"}
          /\ rd'.n \in {0, 1}
          /\ (rd'.res = "Ok" /\ rd'.n = 1) =>
                /\ rd'.buf \in 0..255
                /\ cells' = [cells EXCEPT ![dp] = rd'.buf]
          /\ (rd'.res = "Ok" /\ rd'.n = 0) => cells' = cells
          /\ rd'.res = "Ok" =>
                /\ pc' = "loop"
                /\ ip' = ip + 1
                /\ result' = "none"
          /\ rd'.res = "Err" =>
                /\ pc' = "idle"
                /\ result' = "Failed to read byte from stdin"
                /\ ip' = ip
                /\ cells' = cells
          /\ UNCHANGED <<dp, output>>]_vars

\* `+,` at end of input: the cell keeps its 1 and the run continues past `,`
C12_Witness ==
    /\ src = <<"+", ",">>
    /\ pc = "loop"
    /\ ip = 2
    /\ rd = [res |-> "Ok", n |-> 0, buf |-> 0]
    /\ cells[0] = 1

\* the characters of a returned String as their code points
HelloWorld == <<72, 101, 108, 108, 111, 32, 87, 111, 114, 108, 100, 33, 10>>

Gthvn == <<103, 116, 104, 118, 110>>

\* run has returned for the k-th time
Returned(k) == pc = "idle" /\ runs = k /\ new_result = "Ok"

\* C13: the Hello World program of the tests, run from the initial state,
\* terminates normally and returns exactly "Hello World!\n".
C13_HelloWorld ==
    (src = hello_test_src /\ pc = "idle") =>
        /\ new_result = "Ok"
        /\ runs = 1 => (result = "Ok" /\ output = HelloWorld)

C13_Witness ==
    /\ src = hello_test_src
    /\ Returned(1)
    /\ result = "Ok"
    /\ Len(output) = 13

\* a loop-start is being executed on a zero cell: the loop is skipped
SkipsLoop ==
    /\ pc = "loop"
    /\ ip < Len(insns)
    /\ Insn(insns, ip) = "Forward"
    /\ cells[dp] = 0

\* a loop-end is being executed on a non-zero cell: the loop is re-entered
ReentersLoop ==
    /\ pc = "loop"
    /\ ip < Len(insns)
    /\ Insn(insns, ip) = "Backward"
    /\ cells[dp] # 0

\* C14 as stated: the gthvn program of the tests terminates normally and
\* returns exactly "gthvn", and getting there takes a loop skip at a
\* loop-start (and a re-entry at a loop-end): its run comes to skip a loop.
C14_GthvnSkipsLoop == <>(src = github_profile_src => SkipsLoop)

\* C14 amended: the gthvn program of the tests terminates normally and
\* returns exactly "gthvn"; its run re-enters loops at loop-ends and never
\* executes a loop-start on a zero cell, so no loop is skipped.
C14_Gthvn ==
    src = github_profile_src =>
        /\ pc = "idle" =>
              /\ new_result = "Ok"
              /\ runs = 1 => (result = "Ok" /\ output = Gthvn)
        /\ ~SkipsLoop

C14_Witness ==
    /\ src = github_profile_src
    /\ Returned(1)
    /\ result = "Ok"
    /\ Len(output) = 5
    /\ Insn(insns, 8) = "Forward"
    /\ jumps[8] = 43

\* the eight symbols of the language and the instruction each one stands for
EightSymbols == {">", "<", "+", "-", ".", ",", "[", "]"}

InstructionOf ==
    (">" :> "Incptr") @@ ("<" :> "Decptr") @@ ("+" :> "Incbyte") @@
    ("-" :> "Decbyte") @@ ("." :> "Outbyte") @@ ("," :> "Inbyte") @@
    ("[" :> "Forward") @@ ("]" :> "Backward")

\* the positions of the text that hold one of the eight symbols
SymbolPositions == {k \in 1..Len(src) : src[k] \in EightSymbols}

\* C16: for every source text the Program is the subsequence of the text's
\* characters that are among the eight symbols, each mapped to its
\* instruction: as long as the count of such characters, in their order; and
\* no other character is rejected, so a text without brackets always
\* constructs.
C16_Lexer ==
    /\ (pc = "new" /\ i = 0) =>
          /\ Len(insns) = Cardinality(SymbolPositions)
          /\ \A k \in SymbolPositions :
                insns[Cardinality({j \in SymbolPositions : j <= k})]
                    = InstructionOf[src[k]]
    /\ (pc = "idle" /\ runs = 0 /\ \A k \in 1..Len(src) : src[k] \notin {"[", "]"})
          => new_result = "Ok"

\* the text `x,+` lexed to input-cell, increment-cell
C16_Witness ==
    /\ src = <<"x", ",", "+">>
    /\ insns = <<"Inbyte", "Incbyte">>
    /\ pc = "idle"
    /\ new_result = "Ok"
    /\ runs = 0

\* run is about to execute the bracket instruction at ip
AtBracket ==
    /\ pc = "loop"
    /\ ip < Len(insns)
    /\ Insn(insns, ip) \in {"Forward", "Backward"}

\* C17: for an interpreter that new returned, no run ends with "Failed to
\* match bracket": whenever a bracket instruction is executed its position is
\* a key of the jump table, whatever the tape and the input.
C17_NoJumpMiss ==
    /\ result # "Failed to match bracket"
    /\ AtBracket => ip \in DOMAIN jumps

\* a loop-end is executed on a non-zero cell, so its jump is looked up
C17_Witness ==
    /\ AtBracket
    /\ Insn(insns, ip) = "Backward"
    /\ cells[dp] # 0
    /\ jumps[ip] < ip

\* C18: the jump table pairs brackets by nesting: for every loop-start at i
\* of a constructed Program, table[i] = j with j > i, j holds a loop-end, the
\* instructions strictly between i and j are bracket-balanced, and
\* table[j] = i; loop-ends map only to loop-starts.
C18_PairsByNesting ==
    new_result = "Ok" =>
        /\ \A s \in Opens :
              /\ s \in DOMAIN jumps
              /\ jumps[s] > s
              /\ jumps[s] \in Closes
              /\ DepthBefore(jumps[s]) = DepthBefore(s + 1)
              /\ \A q \in (s + 1)..jumps[s] : DepthBefore(q) >= DepthBefore(s + 1)
              /\ jumps[s] \in DOMAIN jumps
              /\ jumps[jumps[s]] = s
        /\ \A e \in Closes : e \in DOMAIN jumps /\ jumps[e] \in Opens

\* the table of `[[]x]][` cannot be built; that of a loop holding a loop is
C18_Witness ==
    /\ new_result = "Ok"
    /\ \E s, t \in Opens : s < t /\ jumps[t] < jumps[s]

\* C19: for a constructed interpreter with a non-empty Program every state
\* of run has 0 <= ip <= Program length; an instruction is fetched only when
\* ip < Program length, the loop ending without a fetch otherwise; and a run
\* that returns success ends with ip equal to the Program length.
C19_IpInProgram ==
    [][/\ (new_result' = "Ok" /\ Len(insns) > 0) =>
             /\ 0 <= ip' /\ ip' <= Len(insns)
             /\ (pc' = "idle" /\ result' = "Ok") => ip' = Len(insns)
       /\ (pc = "loop" /\ Len(insns) > 0 /\ ip >= Len(insns)) =>
             /\ pc' = "idle" /\ result' = "Ok"
             /\ UNCHANGED <<ip, dp, cells, output, rd>>]_vars

\* a loop that ends the Program was skipped on a zero cell and run returned
C19_Witness ==
    /\ pc = "idle" /\ result = "Ok" /\ runs = 1
    /\ Len(insns) >= 2
    /\ ip = Len(insns)
    /\ Insn(insns, 0) = "Forward"
    /\ jumps[0] = Len(insns) - 1
    /\ \A c \in DOMAIN cells : cells[c] = 0
    /\ rd.res = "none"

\* a call of run is entered
Called == pc = "idle" /\ pc' = "loop"

\* C20: run does not reset the interpreter. Called again after a success it
\* finds ip at the end, executes no instruction and returns success with the
\* empty output, ip, dp and the tape unchanged; called again after a Memory
\* overflow or a Memory underflow it is at the same instruction and fails
\* with the same error, ip and the tape unchanged.
C20_HaltIsFinal ==
    [][/\ Called =>
             /\ UNCHANGED <<ip, dp, cells>>
             /\ output' = <<>>
             /\ result = "Ok" => ip >= Len(insns)
             /\ result = "Memory overflow" =>
                   (Insn(insns, ip) = "Incptr" /\ dp >= TapeLen)
             /\ result = "Memory underflow" =>
                   (Insn(insns, ip) = "Decptr" /\ dp = 0)
       /\ (pc = "loop" /\ Len(insns) > 0 /\ ip >= Len(insns)) =>
             /\ pc' = "idle" /\ result' = "Ok"
             /\ UNCHANGED <<ip, dp, cells, output>>
       /\ (pc = "loop" /\ dp >= TapeLen) =>
             /\ Insn(insns, ip) = "Incptr" /\ output = <<>>
             /\ pc' = "idle" /\ result' = "Memory overflow"
             /\ UNCHANGED <<ip, cells, output>>
       /\ (Fetch("Decptr") /\ dp = 0) =>
             /\ pc' = "idle" /\ result' = "Memory underflow"
             /\ UNCHANGED <<ip, dp, cells, output>>]_vars

\* `+.` was run twice: the second call returned success with no output
C20_Witness ==
    /\ src = <<"+", ".">>
    /\ pc = "idle" /\ result = "Ok" /\ runs = 2
    /\ output = <<>>
    /\ ip = 2 /\ dp = 0 /\ cells[0] = 1

====
